---- MODULE Spec2Model ----
(***************************************************************************)
(* A model of src/email_sender.py: the token cache of GraphEmailSender     *)
(* (get_access_token), the retry loop of send_email and the campaign       *)
(* runner send_emails_one_by_one with its progress ledger.                 *)
(*                                                                         *)
(* Two specifications share the actions of send_email:                     *)
(*   Spec      a campaign run (send_emails_one_by_one, max_retries = 5);   *)
(*   SpecSend  direct calls of send_email with max_retries 0..MaxRetries.  *)
(***************************************************************************)
EXTENDS Integers, Sequences, FiniteSets, TLC

(***************************************************************************)
(* Bounds of the model.                                                    *)
(***************************************************************************)
\* largest max_retries a direct send_email call is given (SpecSend)
MaxRetries == 7
\* number of direct send_email calls in one behaviour (SpecSend)
MaxCalls == 2
\* longest recipient list of a campaign run (Spec)
MaxRecipients == 2
\* the system clock is followed on the grid 0, TimeStep, .., MaxTicks * TimeStep
\* (seconds); the last grid point stands for every later time
MaxTicks == 2
TimeStep == 60
\* most lines of a recipients file (SpecPipe)
MaxLines == 3
\* addresses per request of the external validator: the model's batches of
\* BatchSize addresses stand for the program's batches of 500 (line 611)
BatchSize == 2
\* largest number the external validator reports for a counter of a batch
MaxReported == 1
\* the texts a line of the extraction runs is put together from, at most
MaxTokens == 3
\* get_access_token calls of a run of calls to it alone, at most
MaxTokenCalls == 3

(***************************************************************************)
(* Constants of the program.                                               *)
(***************************************************************************)
SafetyMargin == 300
DefaultExpiresIn == 3600
StatusAccepted == 202
StatusUnauthorized == 401
StatusTooManyRequests == 429
ThrottleBase == 60
ThrottleCap == 600
TransientCap == 30
CampaignMaxRetries == 5
ExtraWait == 30
DelaySeconds == 5

Min(a, b) == IF a < b THEN a ELSE b

RECURSIVE Pow2(_)
Pow2(n) == IF n <= 0 THEN 1 ELSE 2 * Pow2(n - 1)

(***************************************************************************)
(* Values.  Python's None is modelled per field: no token is NoToken, no   *)
(* expiry time is 0 (both are falsy in the test of line 135), a result     *)
(* without the key status_code has status_code 0.                          *)
(***************************************************************************)
NoToken == "None"
Tokens == {"t1", "t2"}
Raise == "raise"
Addrs == {"a@x.com", "b@y.org"}

\* what acquire_token_for_client can answer: a token with or without
\* expires_in, or an error description without a token
AllTokenResults ==
    {[has_token |-> TRUE, access_token |-> t, has_expires_in |-> h, expires_in |-> e] :
        t \in Tokens, h \in {TRUE}, e \in {200, 350}}
    \cup {[has_token |-> TRUE, access_token |-> t, has_expires_in |-> FALSE, expires_in |-> 0] :
        t \in Tokens}
    \cup {[has_token |-> FALSE, access_token |-> NoToken, has_expires_in |-> FALSE, expires_in |-> 0]}

\* the Retry-After header: absent, a text that int() rejects, or an integer
NoRA == [kind |-> "absent", val |-> 0]
TextRA == [kind |-> "text", val |-> 0]
IntRA(n) == [kind |-> "int", val |-> n]

\* A response of the send endpoint.  body is what response.text holds:
\*   "empty"      the empty string
\*   "json"       a JSON document with neither marker
\*   "expired"    a JSON document with InvalidAuthenticationToken / expired
\*   "throttled"  a JSON document with ApplicationThrottled
\*   "html"       text that is not JSON, with neither marker
\* TransportFailure stands for requests.post raising a RequestException.
Resp(s, b, ra) == [status_code |-> s, body |-> b, retry_after |-> ra]
TransportFailure == Resp(0, "exception", NoRA)
NoResponse == Resp(0, "none", NoRA)
Responses ==
    { Resp(202, "empty", NoRA),
      Resp(401, "expired", NoRA), Resp(401, "json", NoRA), Resp(401, "html", NoRA),
      Resp(401, "throttled", NoRA),
      Resp(429, "json", NoRA), Resp(429, "json", TextRA), Resp(429, "json", IntRA(0)),
      Resp(429, "json", IntRA(7)), Resp(429, "json", IntRA(-1)), Resp(429, "html", NoRA),
      Resp(503, "throttled", NoRA), Resp(500, "json", NoRA) }
\* the answers tried in a campaign run: one for each branch of send_email
\* and each kind of result
CampaignResponses ==
    { Resp(202, "empty", NoRA), Resp(401, "expired", NoRA), Resp(429, "json", NoRA),
      Resp(429, "html", NoRA), Resp(503, "throttled", NoRA), Resp(500, "json", NoRA) }

\* the identity provider's answers tried in a campaign run
CampaignTokenResults ==
    {r \in AllTokenResults :
        \/ ~r.has_token
        \/ r.access_token = "t1" /\ r.has_expires_in /\ r.expires_in = 350}

Times == {k * TimeStep : k \in 0..MaxTicks}
MaxTime == MaxTicks * TimeStep

VARIABLES
    \* GraphEmailSender
    access_token,       \* self.access_token
    token_expires_at,   \* self.token_expires_at
    \* the system clock (time.time())
    now,
    \* the frame of send_email
    se_pc,              \* "idle", "start", "prepare", "loop", "returned", "raised"
    recipient_email,
    max_retries,
    attempt,
    bearer,             \* the local access_token the requests carry
    response,           \* the last answer of requests.post
    slept,              \* the time.sleep lengths of the last step of the call
    se_result,          \* the dict returned
    se_exc,             \* the exception raised out of send_email
    \* what the call did so far (history of the call)
    requests_made,      \* send requests issued
    sleeps_made,        \* time.sleep calls
    token_call,         \* the get_access_token call of the last step of the call
    prev_call,          \* how the previous send_email call ended
    calls,              \* direct calls made (SpecSend)
    \* the frame of send_emails_one_by_one
    r_pc,               \* "INIT", "LOADING_PROGRESS", "SENDING", "DONE", "none"
    run,                \* "first", or "again": the campaign run a second time
    recipients,         \* the argument recipient_list
    recipient_list,     \* the local recipient_list, sliced on line 475
    start_index,
    progress_file,      \* TRUE: a path is given
    ledger_exists,      \* the progress file exists on disk
    ledger_file,        \* its lines, in order
    sent_emails,
    loaded,             \* sent_emails as read from the progress file (lines 461-467)
    progress_fp,        \* "None", "open", "closed"
    i,                  \* recipients of the (sliced) list already handled
    results,
    runner_sleeps,      \* the time.sleep calls of the last loop iteration
    ledger_at_start,    \* the lines of the progress file when the run began
    requested,          \* addresses a send request was issued for in this run
    delivered           \* addresses answered 202 in this run, in order

VARIABLES
    \* the frame of filter_and_validate_emails
    p_pc,               \* "none", "EXTRACT", "DEDUP", "FORMAT", "EXTERNAL", "STATS", "DONE"
    emails,             \* the argument: the lines of the recipients file
    use_disify,
    extracted_emails,
    invalid_lines,      \* the numbers of the lines without an address
    unique_emails,
    duplicates_count,
    format_valid_emails,
    invalid_emails,
    final_valid_emails,
    disify_stats,
    stats,
    \* the frame of validate_emails_with_disify
    batch_start,        \* the loop variable i of line 623
    all_valid_emails,
    total_stats,
    batch_log           \* what each batch was answered and what it added (history)

pipeVars == <<p_pc, emails, use_disify, extracted_emails, invalid_lines, unique_emails,
              duplicates_count, format_valid_emails, invalid_emails, final_valid_emails,
              disify_stats, stats, batch_start, all_valid_emails, total_stats, batch_log>>

\* what requests.post can do (line 346) and what acquire_token_for_client can
\* answer (line 142)
Outcomes ==
    (IF r_pc = "none" THEN Responses ELSE CampaignResponses) \cup {TransportFailure}

TokenResults == IF r_pc = "none" THEN AllTokenResults ELSE CampaignTokenResults

tokenVars == <<access_token, token_expires_at>>
frameVars == <<se_pc, recipient_email, max_retries, attempt, bearer, response, slept,
               se_result, se_exc, requests_made, sleeps_made,
               token_call, prev_call>>
runnerVars == <<r_pc, run, recipients, recipient_list, start_index, progress_file,
                ledger_exists, ledger_file, sent_emails, loaded, progress_fp, i, results,
                runner_sleeps, ledger_at_start>>
runVars == <<requested, delivered>>
sendVars == <<tokenVars, now, frameVars, calls, runnerVars, runVars>>
vars == <<sendVars, pipeVars>>

(***************************************************************************)
(* The clock.  time.sleep(w) returns no earlier than w seconds later: the  *)
(* clock moves to the first grid point at or after now + w.                *)
(***************************************************************************)
Later(w) == {t \in Times : t >= now + w}

ClockAfter(w) ==
    IF Later(w) = {} THEN MaxTime
    ELSE CHOOSE t \in Later(w) : \A u \in Later(w) : t <= u

(***************************************************************************)
(* get_access_token (lines 120-152) as a function of the cache, the clock, *)
(* force_refresh and the answer the identity provider would give: the      *)
(* token returned (or Raise), the cache afterwards and the number of       *)
(* exchanges made.                                                         *)
(***************************************************************************)
ExpiresIn(result) ==
    IF result.has_expires_in THEN result.expires_in ELSE DefaultExpiresIn

\* variant: the cache is tried without the safety margin
GetAccessToken_NoMargin(force_refresh, result) ==
    IF /\ ~force_refresh
       /\ access_token # NoToken
       /\ token_expires_at # 0
       /\ now < token_expires_at
    THEN [ret |-> access_token, access_token |-> access_token,
          token_expires_at |-> token_expires_at, exchanges |-> 0]
    ELSE IF result.has_token
    THEN [ret |-> result.access_token, access_token |-> result.access_token,
          token_expires_at |-> now + ExpiresIn(result), exchanges |-> 1]
    ELSE [ret |-> Raise, access_token |-> access_token,
          token_expires_at |-> token_expires_at, exchanges |-> 1]

\* variant: force_refresh is ignored
GetAccessToken_IgnoreForce(force_refresh, result) ==
    IF /\ access_token # NoToken
       /\ token_expires_at # 0
       /\ now < token_expires_at - SafetyMargin
    THEN [ret |-> access_token, access_token |-> access_token,
          token_expires_at |-> token_expires_at, exchanges |-> 0]
    ELSE IF result.has_token
    THEN [ret |-> result.access_token, access_token |-> result.access_token,
          token_expires_at |-> now + ExpiresIn(result), exchanges |-> 1]
    ELSE [ret |-> Raise, access_token |-> access_token,
          token_expires_at |-> token_expires_at, exchanges |-> 1]

\* variant: an exchange that yields no token clears the cache
GetAccessToken_ClearsOnFailure(force_refresh, result) ==
    IF /\ ~force_refresh
       /\ access_token # NoToken
       /\ token_expires_at # 0
       /\ now < token_expires_at - SafetyMargin
    THEN [ret |-> access_token, access_token |-> access_token,
          token_expires_at |-> token_expires_at, exchanges |-> 0]
    ELSE IF result.has_token
    THEN [ret |-> result.access_token, access_token |-> result.access_token,
          token_expires_at |-> now + ExpiresIn(result), exchanges |-> 1]
    ELSE [ret |-> Raise, access_token |-> NoToken, token_expires_at |-> 0, exchanges |-> 1]

GetAccessToken(force_refresh, result) ==
    IF /\ ~force_refresh
       /\ access_token # NoToken
       /\ token_expires_at # 0
       /\ now < token_expires_at - SafetyMargin
    THEN [ret |-> access_token, access_token |-> access_token,
          token_expires_at |-> token_expires_at, exchanges |-> 0]
    ELSE IF result.has_token
    THEN [ret |-> result.access_token, access_token |-> result.access_token,
          token_expires_at |-> now + ExpiresIn(result), exchanges |-> 1]
    ELSE [ret |-> Raise, access_token |-> access_token,
          token_expires_at |-> token_expires_at, exchanges |-> 1]

NoTokenResult ==
    [has_token |-> FALSE, access_token |-> NoToken, has_expires_in |-> FALSE, expires_in |-> 0]

\* the record kept of a get_access_token call
TokenCall(force_refresh, result, g) ==
    [force |-> force_refresh, exchanges |-> g.exchanges, ret |-> g.ret,
     result |-> IF g.exchanges = 0 THEN NoTokenResult ELSE result]

NoTokenCall ==
    [force |-> FALSE, exchanges |-> 0, ret |-> NoToken, result |-> NoTokenResult]

(***************************************************************************)
(* send_email (lines 246-432).                                             *)
(***************************************************************************)
NoResult ==
    [success |-> FALSE, recipient |-> "", status_code |-> 0, error |-> "none", n |-> 0]

\* lines 350-355
SuccessResult(r, status) ==
    [success |-> TRUE, recipient |-> r, status_code |-> status, error |-> "", n |-> 0]

\* lines 364-369, 399-404, 407-412, 421-425: status 0 is a dict without status_code
FailureResult(r, status, err) ==
    [success |-> FALSE, recipient |-> r, status_code |-> status, error |-> err, n |-> 0]

\* lines 428-432: the text is "Failed after {max_retries} attempts"
GenericFailure(r, retries) ==
    [success |-> FALSE, recipient |-> r, status_code |-> 0, error |-> "Failed after n attempts",
     n |-> retries]

\* response.text is non-empty
HasText(body) == body # "empty"

\* response.json() succeeds
IsJson(body) == body \in {"json", "expired", "throttled"}

\* line 360, on str(response.json())
HasExpiredSignal(body) == body = "expired"

\* line 372, on response.text
HasThrottleMarker(body) == body = "throttled"

\* The branch of lines 345-425 a request's outcome takes.  "json_error" is
\* response.json() (lines 359, 373) failing on a body that is not JSON.
Classify(resp) ==
    IF resp = TransportFailure THEN "transport"
    ELSE IF resp.status_code = StatusAccepted THEN "success"
    ELSE IF resp.status_code = StatusUnauthorized
    THEN IF HasText(resp.body) /\ ~IsJson(resp.body) THEN "json_error"
         ELSE IF HasExpiredSignal(resp.body) THEN "expired"
         ELSE "other"
    ELSE IF resp.status_code = StatusTooManyRequests \/ HasThrottleMarker(resp.body)
    THEN IF HasText(resp.body) /\ ~IsJson(resp.body) THEN "json_error"
         ELSE "throttled"
    ELSE "other"

\* lines 376-383: wait_seconds; None and 0 both fail the test of line 387
WaitSeconds(ra) == IF ra.kind = "int" THEN ra.val ELSE 0

\* lines 387-392
ThrottleWait(resp, k) ==
    IF WaitSeconds(resp.retry_after) # 0
    THEN WaitSeconds(resp.retry_after)
    ELSE Min(ThrottleBase * Pow2(k), ThrottleCap)

\* variant: the backoff of line 392 used for transport failures too
TransientWait_AsThrottle(k) == Min(ThrottleBase * Pow2(k), ThrottleCap)

\* line 416
TransientWait(k) == Min(Pow2(k), TransientCap)

\* variant: the last attempt sleeps too, and the loop runs out
RetriesLeft_OneMore(k, retries) == k < retries

\* lines 386, 415
RetriesLeft(k, retries) == k < retries - 1

\* how the frame being left ended, for the next call
PrevOutcome ==
    IF se_pc = "idle" THEN prev_call
    ELSE IF se_pc = "returned" /\ se_result.error = "Token expired" THEN "token_expired"
    ELSE "other"

\* the call send_email(recipient_email = r, max_retries = retries)
SendEmailEntry(r, retries) ==
    /\ se_pc' = "start"
    /\ recipient_email' = r
    /\ max_retries' = retries
    /\ attempt' = 0
    /\ bearer' = NoToken
    /\ response' = NoResponse
    /\ slept' = <<>>
    /\ se_result' = NoResult
    /\ se_exc' = "none"
    /\ requests_made' = 0
    /\ sleeps_made' = 0
    /\ token_call' = NoTokenCall
    /\ prev_call' = PrevOutcome

\* the caller takes the result: the frame is gone
SendEmailExit ==
    /\ se_pc' = "idle"
    /\ recipient_email' = ""
    /\ max_retries' = 0
    /\ attempt' = 0
    /\ bearer' = NoToken
    /\ response' = NoResponse
    /\ slept' = <<>>
    /\ se_result' = NoResult
    /\ se_exc' = "none"
    /\ requests_made' = 0
    /\ sleeps_made' = 0
    /\ token_call' = NoTokenCall
    /\ prev_call' = PrevOutcome

\* line 271
SE_GetToken ==
    /\ se_pc = "start"
    /\ \E result \in TokenResults :
        LET g == GetAccessToken(FALSE, result) IN
        /\ access_token' = g.access_token
        /\ token_expires_at' = g.token_expires_at
        /\ token_call' = TokenCall(FALSE, result, g)
        /\ IF g.ret = Raise
           THEN se_pc' = "raised" /\ se_exc' = "Failed to acquire token" /\ bearer' = bearer
           ELSE se_pc' = "prepare" /\ se_exc' = se_exc /\ bearer' = g.ret
    /\ slept' = <<>>
    /\ UNCHANGED <<now, recipient_email, max_retries, attempt, response, se_result,
                   requests_made, sleeps_made, prev_call, calls,
                   runnerVars, runVars>>
    /\ UNCHANGED pipeVars

\* lines 273-336: the logo never fails the call (get_logo_base64 returns None),
\* encode_attachment raises FileNotFoundError when the file is missing
SE_Prepare ==
    /\ se_pc = "prepare"
    /\ \E attachment \in {"none", "file", "missing"} :
        IF attachment = "missing"
        THEN se_pc' = "raised" /\ se_exc' = "Attachment file not found"
        ELSE se_pc' = "loop" /\ se_exc' = se_exc
    /\ slept' = <<>>
    /\ token_call' = NoTokenCall
    /\ UNCHANGED <<tokenVars, now, recipient_email, max_retries, attempt, bearer, response,
                   se_result, requests_made, sleeps_made,
                   prev_call, calls, runnerVars, runVars>>
    /\ UNCHANGED pipeVars

\* line 346: one more request, carrying bearer, answered by resp
Post(resp) ==
    /\ se_pc = "loop"
    /\ attempt < max_retries
    /\ resp \in Outcomes
    /\ requests_made' = requests_made + 1
    /\ response' = resp
    /\ requested' = requested \cup {recipient_email}

\* time.sleep(w), then continue (lines 395-396, 418-419)
SleepAndRetry(w) ==
    /\ slept' = <<w>>
    /\ sleeps_made' = sleeps_made + 1
    /\ now' = ClockAfter(w)
    /\ attempt' = attempt + 1
    /\ se_pc' = "loop"
    /\ UNCHANGED <<se_result, se_exc>>

Return(res) ==
    /\ se_pc' = "returned"
    /\ se_result' = res
    /\ slept' = <<>>
    /\ UNCHANGED <<now, attempt, sleeps_made, se_exc>>

\* lines 349-355
SE_Success ==
    /\ \E resp \in Outcomes :
        /\ Classify(resp) = "success"
        /\ Post(resp)
        /\ Return(SuccessResult(recipient_email, resp.status_code))
    /\ delivered' = Append(delivered, recipient_email)
    /\ token_call' = NoTokenCall
    /\ UNCHANGED <<tokenVars, recipient_email, max_retries, bearer, prev_call, calls,
                   runnerVars>>
    /\ UNCHANGED pipeVars

\* lines 358-369
SE_TokenExpired ==
    /\ \E resp \in Outcomes, result \in TokenResults :
        LET g == GetAccessToken(TRUE, result) IN
        /\ Classify(resp) = "expired"
        /\ Post(resp)
        /\ access_token' = g.access_token
        /\ token_expires_at' = g.token_expires_at
        /\ token_call' = TokenCall(TRUE, result, g)
        /\ IF g.ret = Raise
           THEN /\ se_pc' = "raised"
                /\ se_exc' = "Failed to acquire token"
                /\ slept' = <<>>
                /\ UNCHANGED <<bearer, se_result, now, attempt, sleeps_made>>
           ELSE /\ bearer' = g.ret
                /\ Return(FailureResult(recipient_email, resp.status_code, "Token expired"))
    /\ UNCHANGED <<recipient_email, max_retries, prev_call, calls, runnerVars, delivered>>
    /\ UNCHANGED pipeVars

\* lines 372-404; time.sleep raises ValueError on a negative length
SE_Throttled ==
    /\ \E resp \in Outcomes :
        /\ Classify(resp) = "throttled"
        /\ Post(resp)
        /\ IF RetriesLeft(attempt, max_retries)
           THEN IF ThrottleWait(resp, attempt) < 0
                THEN /\ se_pc' = "raised"
                     /\ se_exc' = "sleep length must be non-negative"
                     /\ slept' = <<ThrottleWait(resp, attempt)>>
                     /\ UNCHANGED <<se_result, now, attempt, sleeps_made>>
                ELSE SleepAndRetry(ThrottleWait(resp, attempt))
           ELSE Return(FailureResult(recipient_email, resp.status_code, resp.body))
    /\ token_call' = NoTokenCall
    /\ UNCHANGED <<tokenVars, recipient_email, max_retries, bearer, prev_call, calls,
                   runnerVars, delivered>>
    /\ UNCHANGED pipeVars

\* lines 406-412
SE_Other ==
    /\ \E resp \in Outcomes :
        /\ Classify(resp) = "other"
        /\ Post(resp)
        /\ Return(FailureResult(recipient_email, resp.status_code, resp.body))
    /\ token_call' = NoTokenCall
    /\ UNCHANGED <<tokenVars, recipient_email, max_retries, bearer, prev_call, calls,
                   runnerVars, delivered>>
    /\ UNCHANGED pipeVars

\* lines 414-425: requests.post raised, or response.json() raised the
\* JSONDecodeError of requests 2.27 and later, a RequestException
SE_RequestException ==
    /\ \E resp \in Outcomes :
        /\ Classify(resp) \in {"transport", "json_error"}
        /\ Post(resp)
        /\ IF RetriesLeft(attempt, max_retries)
           THEN SleepAndRetry(TransientWait(attempt))
           ELSE Return(FailureResult(recipient_email, 0, "Request exception"))
    /\ token_call' = NoTokenCall
    /\ UNCHANGED <<tokenVars, recipient_email, max_retries, bearer, prev_call, calls,
                   runnerVars, delivered>>
    /\ UNCHANGED pipeVars

\* lines 359, 373 with a requests older than 2.27: response.json() raises a
\* ValueError, which no handler of send_email catches
SE_JsonValueError ==
    /\ \E resp \in Outcomes :
        /\ Classify(resp) = "json_error"
        /\ Post(resp)
        /\ se_pc' = "raised"
        /\ se_exc' = "Expecting value"
        /\ slept' = <<>>
        /\ UNCHANGED <<se_result, now, attempt, sleeps_made>>
    /\ token_call' = NoTokenCall
    /\ UNCHANGED <<tokenVars, recipient_email, max_retries, bearer, prev_call, calls,
                   runnerVars, delivered>>
    /\ UNCHANGED pipeVars

\* lines 427-432: the loop ended without a return
SE_Exhausted ==
    /\ se_pc = "loop"
    /\ attempt >= max_retries
    /\ se_pc' = "returned"
    /\ se_result' = GenericFailure(recipient_email, max_retries)
    /\ slept' = <<>>
    /\ token_call' = NoTokenCall
    /\ UNCHANGED <<tokenVars, now, recipient_email, max_retries, attempt, bearer, response,
                   se_exc, requests_made, sleeps_made,
                   prev_call, calls, runnerVars, runVars>>
    /\ UNCHANGED pipeVars

SendEmailNext ==
    \/ SE_GetToken
    \/ SE_Prepare
    \/ SE_Success
    \/ SE_TokenExpired
    \/ SE_Throttled
    \/ SE_Other
    \/ SE_RequestException
    \/ SE_JsonValueError

(***************************************************************************)
(* SpecSend: direct calls of send_email on one GraphEmailSender, each      *)
(* with a max_retries of 0..MaxRetries, any time apart.                    *)
(***************************************************************************)
\* no sanitization is under way: the frames of the pipeline are empty
NoStats ==
    [total |-> 0, invalid_format |-> 0, invalid_dns |-> 0, disposable |-> 0, unique |-> 0,
     valid |-> 0]

NoPipeStats ==
    [total_lines |-> 0, extracted_emails |-> 0, duplicates_removed |-> 0, invalid_lines |-> 0,
     invalid_emails |-> 0, format_valid_emails |-> 0, disposable_emails |-> 0,
     invalid_dns |-> 0, final_valid_emails |-> 0]

InitPipeLocals ==
    /\ extracted_emails = <<>>
    /\ invalid_lines = <<>>
    /\ unique_emails = <<>>
    /\ duplicates_count = 0
    /\ format_valid_emails = <<>>
    /\ invalid_emails = <<>>
    /\ final_valid_emails = <<>>
    /\ disify_stats = NoStats
    /\ stats = NoPipeStats
    /\ batch_start = 0
    /\ all_valid_emails = <<>>
    /\ total_stats = NoStats
    /\ batch_log = <<>>

InitPipeIdle ==
    /\ p_pc = "none"
    /\ emails = <<>>
    /\ use_disify = FALSE
    /\ InitPipeLocals

InitFrame ==
    /\ se_pc = "idle"
    /\ recipient_email = ""
    /\ max_retries = 0
    /\ attempt = 0
    /\ bearer = NoToken
    /\ response = NoResponse
    /\ slept = <<>>
    /\ se_result = NoResult
    /\ se_exc = "none"
    /\ requests_made = 0
    /\ sleeps_made = 0
    /\ token_call = NoTokenCall
    /\ prev_call = "none"

\* lines 104-118
InitSender ==
    /\ access_token = NoToken
    /\ token_expires_at = 0
    /\ now = 0

\* no campaign is under way: the frame of send_emails_one_by_one is empty
InitRunnerIdle ==
    /\ r_pc = "none"
    /\ run = "none"
    /\ recipients = <<>>
    /\ recipient_list = <<>>
    /\ start_index = 0
    /\ progress_file = FALSE
    /\ ledger_exists = FALSE
    /\ ledger_file = <<>>
    /\ sent_emails = {}
    /\ loaded = {}
    /\ progress_fp = "None"
    /\ i = 0
    /\ results = <<>>
    /\ runner_sleeps = <<>>
    /\ ledger_at_start = <<>>
    /\ requested = {}
    /\ delivered = <<>>

InitSend ==
    /\ InitSender
    /\ InitFrame
    /\ calls = 0
    /\ InitRunnerIdle
    /\ InitPipeIdle

D_Call ==
    /\ r_pc = "none"
    /\ se_pc \in {"idle", "returned", "raised"}
    /\ calls < MaxCalls
    /\ calls' = calls + 1
    /\ \E r \in Addrs, retries \in 0..MaxRetries : SendEmailEntry(r, retries)
    /\ now' \in Later(0)
    /\ UNCHANGED <<tokenVars, runnerVars, runVars>>
    /\ UNCHANGED pipeVars

NextSend == D_Call \/ SendEmailNext \/ SE_Exhausted

SpecSend == InitSend /\ [][NextSend]_vars

(***************************************************************************)
(* get_access_token on its own (lines 120-152): calls with and without     *)
(* force_refresh, any time apart, each answered by the identity provider   *)
(* with or without a token.                                                *)
(***************************************************************************)
\* how the call before ended, for the next call
PrevTokenCall ==
    IF token_call = NoTokenCall THEN "none"
    ELSE IF token_call.ret = Raise /\ token_call.force THEN "refresh_failed"
    ELSE IF token_call.ret = Raise THEN "failed"
    ELSE "other"

T_GetAccessToken ==
    /\ r_pc = "none"
    /\ se_pc = "idle"
    /\ calls < MaxTokenCalls
    /\ calls' = calls + 1
    /\ \E force_refresh \in BOOLEAN, result \in AllTokenResults :
        LET g == GetAccessToken(force_refresh, result) IN
        /\ access_token' = g.access_token
        /\ token_expires_at' = g.token_expires_at
        /\ token_call' = TokenCall(force_refresh, result, g)
    /\ prev_call' = PrevTokenCall
    /\ UNCHANGED <<now, se_pc, recipient_email, max_retries, attempt, bearer, response, slept,
                   se_result, se_exc, requests_made, sleeps_made, runnerVars, runVars>>
    /\ UNCHANGED pipeVars

\* time passes between two calls
T_Wait ==
    /\ r_pc = "none"
    /\ se_pc = "idle"
    /\ calls < MaxTokenCalls
    /\ now' \in {t \in Times : t > now}
    /\ UNCHANGED <<tokenVars, frameVars, calls, runnerVars, runVars>>
    /\ UNCHANGED pipeVars

NextToken == T_GetAccessToken \/ T_Wait

SpecToken == InitSend /\ [][NextToken]_vars

(***************************************************************************)
(* send_emails_one_by_one (lines 434-555).                                 *)
(***************************************************************************)
Range(seq) == {seq[k] : k \in 1..Len(seq)}

\* variant: the resume offset is not applied
SliceFrom_Whole(seq, k) == seq

\* recipient_list[start_index:] (line 475)
SliceFrom(seq, k) == SubSeq(seq, k + 1, Len(seq))

\* the recipient of the iteration at hand (line 493)
Recipient == recipient_list[i + 1]

\* variant: only the marker in the error text is looked for
ThrottlingDetected_MarkerOnly(result) == HasThrottleMarker(result.error)

\* line 530: "ApplicationThrottled" in the error text, or "429" in the text
\* of the status code (for a three-digit status: the status is 429)
ThrottlingDetected(result) ==
    HasThrottleMarker(result.error) \/ result.status_code = StatusTooManyRequests

\* variant: recipients read from the progress file are not skipped
AlreadySent_ThisRunOnly(recipient, sent) == recipient \in sent \ loaded

\* variant: the ledger set is never consulted
AlreadySent_Never(recipient, sent) == FALSE

\* variant: only the recipients read from the progress file are skipped
AlreadySent_LoadedOnly(recipient, sent) == recipient \in loaded

\* line 495
AlreadySent(recipient, sent) == recipient \in sent

\* variant: no result is recorded
RecordsLedger_Never(result) == FALSE

\* variant: every result is recorded, failures too
RecordsLedger_Any(result) == TRUE

\* line 517
RecordsLedger(result) == result.success

\* line 539, with i the number of recipients handled before this one
DelayDue(k, list) == k + 1 < Len(list)

\* lines 459-471: the lines read become the set; a read error leaves the
\* lines read before it (the except of line 470 only warns)
R_LoadProgress ==
    /\ r_pc = "INIT"
    /\ se_pc = "idle"
    /\ r_pc' = "LOADING_PROGRESS"
    /\ IF progress_file /\ ledger_exists
       THEN \E k \in 0..Len(ledger_file) : sent_emails' = Range(SubSeq(ledger_file, 1, k))
       ELSE sent_emails' = {}
    /\ loaded' = sent_emails'
    /\ UNCHANGED <<tokenVars, now, frameVars, calls, run, recipients, recipient_list,
                   start_index, progress_file, ledger_exists, ledger_file, progress_fp, i,
                   results, runner_sleeps, ledger_at_start, runVars>>
    /\ UNCHANGED pipeVars

\* lines 473-490: slice, then open the progress file for appending (which
\* creates it); when open fails progress_fp stays None
R_BeginSending ==
    /\ r_pc = "LOADING_PROGRESS"
    /\ r_pc' = "SENDING"
    /\ recipient_list' =
           IF start_index > 0 THEN SliceFrom(recipient_list, start_index) ELSE recipient_list
    /\ IF progress_file
       THEN \E opened \in BOOLEAN :
               IF opened
               THEN progress_fp' = "open" /\ ledger_exists' = TRUE
               ELSE progress_fp' = "None" /\ ledger_exists' = ledger_exists
       ELSE progress_fp' = "None" /\ ledger_exists' = ledger_exists
    /\ i' = 0
    /\ UNCHANGED <<tokenVars, now, frameVars, calls, run, recipients, start_index,
                   progress_file, ledger_file, sent_emails, loaded, results, runner_sleeps,
                   ledger_at_start, runVars>>
    /\ UNCHANGED pipeVars

\* lines 495-497
R_Skip ==
    /\ r_pc = "SENDING"
    /\ se_pc = "idle"
    /\ i < Len(recipient_list)
    /\ AlreadySent(Recipient, sent_emails)
    /\ i' = i + 1
    /\ runner_sleeps' = <<>>
    /\ UNCHANGED <<tokenVars, now, frameVars, calls, r_pc, run, recipients, recipient_list,
                   start_index, progress_file, ledger_exists, ledger_file, sent_emails, loaded,
                   progress_fp, results, ledger_at_start, runVars>>
    /\ UNCHANGED pipeVars

\* lines 499-515
R_Send ==
    /\ r_pc = "SENDING"
    /\ se_pc = "idle"
    /\ i < Len(recipient_list)
    /\ ~AlreadySent(Recipient, sent_emails)
    /\ SendEmailEntry(Recipient, CampaignMaxRetries)
    /\ runner_sleeps' = <<>>
    /\ UNCHANGED <<tokenVars, now, calls, r_pc, run, recipients, recipient_list, start_index,
                   progress_file, ledger_exists, ledger_file, sent_emails, loaded, progress_fp,
                   i, results, ledger_at_start, runVars>>
    /\ UNCHANGED pipeVars

\* the sleeps of lines 533 and 542 after a result
SleepsAfter(result) ==
    (IF ~result.success /\ ThrottlingDetected(result) THEN <<ExtraWait>> ELSE <<>>)
    \o (IF DelayDue(i, recipient_list) THEN <<DelaySeconds>> ELSE <<>>)

RECURSIVE SleepAll(_, _)
SleepAll(t, sleeps) ==
    IF sleeps = <<>> THEN t
    ELSE SleepAll(LET later == {u \in Times : u >= t + Head(sleeps)} IN
                  IF later = {} THEN MaxTime
                  ELSE CHOOSE u \in later : \A v \in later : u <= v,
                  Tail(sleeps))

\* lines 517-542: send_email returned; the ledger write of a success comes
\* before results.append and the delay
R_Returned ==
    /\ r_pc = "SENDING"
    /\ se_pc = "returned"
    /\ sent_emails' = IF RecordsLedger(se_result) THEN sent_emails \cup {Recipient}
                      ELSE sent_emails
    /\ ledger_file' = IF RecordsLedger(se_result) /\ progress_fp = "open"
                      THEN Append(ledger_file, Recipient)
                      ELSE ledger_file
    /\ results' = Append(results, se_result)
    /\ runner_sleeps' = SleepsAfter(se_result)
    /\ now' = SleepAll(now, SleepsAfter(se_result))
    /\ i' = i + 1
    /\ SendEmailExit
    /\ UNCHANGED <<tokenVars, calls, r_pc, run, recipients, recipient_list, start_index,
                   progress_file, ledger_exists, loaded, progress_fp, ledger_at_start,
                   runVars>>
    /\ UNCHANGED pipeVars

\* lines 522-524 raising (the disk is full, the file is gone), caught on line
\* 544: the success is recorded as a failure and no delay follows
R_LedgerWriteFails ==
    /\ r_pc = "SENDING"
    /\ se_pc = "returned"
    /\ RecordsLedger(se_result)
    /\ progress_fp = "open"
    /\ sent_emails' = sent_emails \cup {Recipient}
    /\ results' = Append(results, FailureResult(Recipient, 0, "write error"))
    /\ runner_sleeps' = <<>>
    /\ i' = i + 1
    /\ SendEmailExit
    /\ UNCHANGED <<tokenVars, now, calls, r_pc, run, recipients, recipient_list, start_index,
                   progress_file, ledger_exists, ledger_file, loaded, progress_fp,
                   ledger_at_start, runVars>>
    /\ UNCHANGED pipeVars

\* variant: no inner handler, the exception ends the loop (finally closes
\* the file)
R_Exception_Aborts ==
    /\ r_pc = "SENDING"
    /\ se_pc = "raised"
    /\ r_pc' = "DONE"
    /\ progress_fp' = IF progress_fp = "open" THEN "closed" ELSE progress_fp
    /\ runner_sleeps' = <<>>
    /\ SendEmailExit
    /\ UNCHANGED <<tokenVars, now, calls, run, recipients, recipient_list, start_index,
                   progress_file, ledger_exists, ledger_file, sent_emails, loaded, i, results,
                   ledger_at_start, runVars>>
    /\ UNCHANGED pipeVars

\* variant: the exception is caught and no result is kept for the recipient
R_Exception_NoRecord ==
    /\ r_pc = "SENDING"
    /\ se_pc = "raised"
    /\ results' = results
    /\ runner_sleeps' = <<>>
    /\ i' = i + 1
    /\ SendEmailExit
    /\ UNCHANGED <<tokenVars, now, calls, r_pc, run, recipients, recipient_list, start_index,
                   progress_file, ledger_exists, ledger_file, sent_emails, loaded, progress_fp,
                   ledger_at_start, runVars>>
    /\ UNCHANGED pipeVars

\* lines 544-550: send_email raised
R_Exception ==
    /\ r_pc = "SENDING"
    /\ se_pc = "raised"
    /\ results' = Append(results, FailureResult(Recipient, 0, se_exc))
    /\ runner_sleeps' = <<>>
    /\ i' = i + 1
    /\ SendEmailExit
    /\ UNCHANGED <<tokenVars, now, calls, r_pc, run, recipients, recipient_list, start_index,
                   progress_file, ledger_exists, ledger_file, sent_emails, loaded, progress_fp,
                   ledger_at_start, runVars>>
    /\ UNCHANGED pipeVars

\* variant: the loop ends and the progress file is left open
R_Finish_LeavesOpen ==
    /\ r_pc = "SENDING"
    /\ se_pc = "idle"
    /\ i = Len(recipient_list)
    /\ r_pc' = "DONE"
    /\ UNCHANGED <<tokenVars, now, frameVars, calls, run, recipients, recipient_list,
                   start_index, progress_file, ledger_exists, ledger_file, sent_emails, loaded,
                   progress_fp, i, results, runner_sleeps, ledger_at_start, runVars>>
    /\ UNCHANGED pipeVars

\* lines 551-555
R_Finish ==
    /\ r_pc = "SENDING"
    /\ se_pc = "idle"
    /\ i = Len(recipient_list)
    /\ r_pc' = "DONE"
    /\ progress_fp' = IF progress_fp = "open" THEN "closed" ELSE progress_fp
    /\ UNCHANGED <<tokenVars, now, frameVars, calls, run, recipients, recipient_list,
                   start_index, progress_file, ledger_exists, ledger_file, sent_emails, loaded,
                   i, results, runner_sleeps, ledger_at_start, runVars>>
    /\ UNCHANGED pipeVars

\* main() run again (lines 779-905) with the same recipients: a new sender
\* (no token), new locals, the progress file as the last run left it
R_Rerun ==
    /\ r_pc = "DONE"
    /\ run = "first"
    /\ run' = "again"
    /\ r_pc' = "INIT"
    /\ access_token' = NoToken
    /\ token_expires_at' = 0
    /\ recipient_list' = recipients
    /\ sent_emails' = {}
    /\ loaded' = {}
    /\ progress_fp' = "None"
    /\ i' = 0
    /\ results' = <<>>
    /\ runner_sleeps' = <<>>
    /\ ledger_at_start' = ledger_file
    /\ requested' = {}
    /\ delivered' = <<>>
    /\ prev_call' = "none"
    /\ UNCHANGED <<now, se_pc, recipient_email, max_retries, attempt, bearer, response,
                   slept, se_result, se_exc, requests_made, sleeps_made,
                   token_call, calls, recipients, start_index, progress_file, ledger_exists,
                   ledger_file>>
    /\ UNCHANGED pipeVars

RECURSIVE ListsUpTo(_)
ListsUpTo(n) ==
    IF n = 0 THEN {<<>>}
    ELSE ListsUpTo(n - 1) \cup
         {Append(l, a) : l \in {m \in ListsUpTo(n - 1) : Len(m) = n - 1}, a \in Addrs}

\* The lists tried: addresses are opaque to the runner, so a list that
\* starts with the second address behaves as its mirror image does.
RecipientLists == {l \in ListsUpTo(MaxRecipients) : l = <<>> \/ l[1] = "a@x.com"}

\* lines 792-797, 887-905 and 457: a new sender, the arguments of the run,
\* the progress file absent or empty
Init ==
    /\ InitSender
    /\ InitFrame
    /\ calls = 0
    /\ r_pc = "INIT"
    /\ run = "first"
    /\ recipients \in RecipientLists
    /\ recipient_list = recipients
    /\ start_index \in 0..MaxRecipients
    /\ progress_file \in BOOLEAN
    /\ ledger_exists \in (IF progress_file THEN BOOLEAN ELSE {FALSE})
    /\ ledger_file = <<>>
    /\ sent_emails = {}
    /\ loaded = {}
    /\ progress_fp = "None"
    /\ i = 0
    /\ results = <<>>
    /\ runner_sleeps = <<>>
    /\ ledger_at_start = <<>>
    /\ requested = {}
    /\ delivered = <<>>
    /\ InitPipeIdle

RunnerNext ==
    \/ R_LoadProgress
    \/ R_BeginSending
    \/ R_Skip
    \/ R_Send
    \/ R_Returned
    \/ R_LedgerWriteFails
    \/ R_Exception
    \/ R_Finish
    \/ R_Rerun

Next == RunnerNext \/ SendEmailNext

Spec == Init /\ [][Next]_vars

\* the run as main() starts it: from the first recipient (line 887), with a
\* progress file (line 890)
InitMain == Init /\ start_index = 0 /\ progress_file

\* The run as the interpreter executes it: a statement that can be executed
\* is executed (requests time out after 30 s, line 346; every sleep ends).
SpecLive == InitMain /\ [][Next]_vars /\ WF_vars(Next)

(***************************************************************************)
(* is_valid_email and extract_email_from_line (lines 558-588).  A text is  *)
(* the sequence of its characters; the regular expressions are computed as *)
(* Python's re computes them (leftmost match, greedy with backtracking).   *)
(***************************************************************************)
LowerSeq ==
    <<"a", "b", "c", "d", "e", "f", "g", "h", "i", "j", "k", "l", "m",
      "n", "o", "p", "q", "r", "s", "t", "u", "v", "w", "x", "y", "z">>
UpperSeq ==
    <<"A", "B", "C", "D", "E", "F", "G", "H", "I", "J", "K", "L", "M",
      "N", "O", "P", "Q", "R", "S", "T", "U", "V", "W", "X", "Y", "Z">>
Letters == Range(LowerSeq) \cup Range(UpperSeq)
Digits == {"0", "1", "2", "3", "4", "5", "6", "7", "8", "9"}
\* \w, of which \b is made
WordChars == Letters \cup Digits \cup {"_"}
\* [a-zA-Z0-9._%+-] and [a-zA-Z0-9.-] (lines 564, 579)
LocalChars == Letters \cup Digits \cup {".", "_", "%", "+", "-"}
DomainChars == Letters \cup Digits \cup {".", "-"}
\* what str.strip() removes
Whitespace == {" ", "\t", "\n", "\r"}

\* str.lower() (line 586)
ToLowerChar(c) ==
    IF c \in Range(UpperSeq)
    THEN LowerSeq[CHOOSE k \in 1..Len(UpperSeq) : UpperSeq[k] = c]
    ELSE c

ToLower(text) == [k \in 1..Len(text) |-> ToLowerChar(text[k])]

\* line 573
Strip(text) ==
    LET keep == {k \in 1..Len(text) : text[k] \notin Whitespace}
    IN  IF keep = {} THEN <<>>
        ELSE SubSeq(text, CHOOSE k \in keep : \A j \in keep : k <= j,
                          CHOOSE k \in keep : \A j \in keep : j <= k)

\* the end of the longest run of characters of class that starts at st
\* (st - 1 when there is none): what a greedy [class]+ takes
RunEnd(text, st, class) ==
    LET ends == {e \in (st - 1)..Len(text) : \A k \in st..e : text[k] \in class}
    IN  CHOOSE e \in ends : \A f \in ends : f <= e

IsWordAt(text, k) == k \in 1..Len(text) /\ text[k] \in WordChars

\* \b between the characters k and k + 1
WordBoundary(text, k) == IsWordAt(text, k) # IsWordAt(text, k + 1)

\* Where the match of email_pattern (line 579) that starts at st ends, 0 when
\* there is none.  The local part is the whole run before the "@"; the
\* domain gives back characters up to the last "." that is followed by two
\* letters or more and then by a \b.
MatchEnd(text, st) ==
    LET L == RunEnd(text, st, LocalChars)
        at == L + 1
        R == RunEnd(text, at + 1, DomainChars)
        TldEnd(q) == RunEnd(text, q + 1, Letters)
        dots == {q \in (at + 2)..R :
                    /\ text[q] = "."
                    /\ TldEnd(q) - q >= 2
                    /\ ~IsWordAt(text, TldEnd(q) + 1)}
    IN  IF \/ ~WordBoundary(text, st - 1)
           \/ L < st
           \/ at > Len(text)
           \/ text[at] # "@"
           \/ dots = {}
        THEN 0
        ELSE TldEnd(CHOOSE q \in dots : \A r \in dots : r <= q)

\* re.findall(email_pattern, text) from the position pos on (line 580)
RECURSIVE Matches(_, _)
Matches(text, pos) ==
    LET starts == {k \in pos..Len(text) : MatchEnd(text, k) # 0}
    IN  IF starts = {} THEN <<>>
        ELSE LET st == CHOOSE k \in starts : \A j \in starts : k <= j
             IN  <<SubSeq(text, st, MatchEnd(text, st))>>
                 \o Matches(text, MatchEnd(text, st) + 1)

\* lines 564-565; $ also matches before a newline that ends the text
IsValidEmail(email) ==
    LET n == Len(email)
        ends == {n} \cup (IF n > 0 /\ email[n] = "\n" THEN {n - 1} ELSE {})
    IN  \E e \in ends : \E at \in 2..e : \E dot \in (at + 2)..e :
            /\ email[at] = "@"
            /\ email[dot] = "."
            /\ \A k \in 1..(at - 1) : email[k] \in LocalChars
            /\ \A k \in (at + 1)..(dot - 1) : email[k] \in DomainChars
            /\ e - dot >= 2
            /\ \A k \in (dot + 1)..e : email[k] \in Letters

\* None, as extract_email_from_line returns it: the test of line 694 takes
\* it as it would the empty text
NoEmail == <<>>

\* extract_email_from_line returning the last match that is valid
ExtractEmailFromLine_LastMatch(line) ==
    LET text == Strip(line)
        valid == SelectSeq(Matches(text, 1), IsValidEmail)
    IN  IF text = <<>> \/ valid = <<>> THEN NoEmail ELSE ToLower(valid[Len(valid)])

\* lines 573-588
ExtractEmailFromLine(line) ==
    LET text == Strip(line)
        valid == SelectSeq(Matches(text, 1), IsValidEmail)
    IN  IF text = <<>> \/ valid = <<>> THEN NoEmail ELSE ToLower(valid[1])

(***************************************************************************)
(* filter_and_validate_emails (lines 678-753) and                          *)
(* validate_emails_with_disify (lines 591-675).                            *)
(***************************************************************************)
\* lines 692-697: the addresses extracted, in line order
ExtractAll(lines) ==
    LET F[k \in 0..Len(lines)] ==
            IF k = 0 THEN <<>>
            ELSE IF ExtractEmailFromLine(lines[k]) # NoEmail
                 THEN Append(F[k - 1], ExtractEmailFromLine(lines[k]))
                 ELSE F[k - 1]
    IN  F[Len(lines)]

\* lines 692-697: the numbers of the lines that gave no address
InvalidLines(lines) ==
    LET F[k \in 0..Len(lines)] ==
            IF k = 0 THEN <<>>
            ELSE IF ExtractEmailFromLine(lines[k]) = NoEmail
                 THEN Append(F[k - 1], k)
                 ELSE F[k - 1]
    IN  F[Len(lines)]

\* variant: an address seen before replaces its earlier occurrence
RECURSIVE RemoveDuplicates_KeepLast(_, _, _, _)
RemoveDuplicates_KeepLast(list, seen, unique, count) ==
    IF list = <<>> THEN [unique_emails |-> unique, duplicates_count |-> count]
    ELSE IF Head(list) \notin seen
    THEN RemoveDuplicates_KeepLast(Tail(list), seen \cup {Head(list)},
                                   Append(unique, Head(list)), count)
    ELSE RemoveDuplicates_KeepLast(Tail(list), seen,
                                   Append(SelectSeq(unique, LAMBDA u : u # Head(list)),
                                          Head(list)),
                                   count + 1)

\* lines 701-710: the loop over extracted_emails, from the locals seen,
\* unique_emails and duplicates_count
RECURSIVE RemoveDuplicates(_, _, _, _)
RemoveDuplicates(list, seen, unique, count) ==
    IF list = <<>> THEN [unique_emails |-> unique, duplicates_count |-> count]
    ELSE IF Head(list) \notin seen
    THEN RemoveDuplicates(Tail(list), seen \cup {Head(list)}, Append(unique, Head(list)),
                          count)
    ELSE RemoveDuplicates(Tail(list), seen, unique, count + 1)

\* lines 662-664, 670-672, 717-719
FormatValid(list) == SelectSeq(list, IsValidEmail)

\* lines 717-721
FormatInvalid(list) == SelectSeq(list, LAMBDA e : ~IsValidEmail(e))

\* line 624: email_list[i:i + batch_size]
BatchAt(email_list, start) ==
    SubSeq(email_list, start + 1, Min(start + BatchSize, Len(email_list)))

\* the members of list at the positions in S, in order
Pick(list, S) ==
    LET F[k \in 0..Len(list)] ==
            IF k = 0 THEN <<>>
            ELSE IF k \in S THEN Append(F[k - 1], list[k]) ELSE F[k - 1]
    IN  F[Len(list)]

\* a line of the session view that is no address
JunkLine == <<"o", "k">>

\* What the session view can list for a batch (line 648, the lines that are
\* not blank): some of the batch in order, a member twice, text that is no
\* address, an address the batch did not hold.
ViewTexts(email_list, batch) ==
    {Pick(batch, S) : S \in SUBSET (1..Len(batch))}
    \cup {<<batch[1], batch[1]>>, <<JunkLine>>, <<email_list[1]>>}

\* lines 652-656 for the counters a batch reports
Accumulate(totals, total, invalid_dns, disposable, valid) ==
    [totals EXCEPT !.total = @ + total, !.invalid_dns = @ + invalid_dns,
                   !.disposable = @ + disposable, !.valid = @ + valid]

\* the record kept of a batch: what it was, how it was answered, what the
\* session view listed and what it added to all_valid_emails
BatchRecord(batch, kind, text, added) ==
    [batch |-> batch, kind |-> kind, text |-> text, added |-> added]

\* lines 692-697
P_Extract ==
    /\ p_pc = "EXTRACT"
    /\ p_pc' = "DEDUP"
    /\ extracted_emails' = ExtractAll(emails)
    /\ invalid_lines' = InvalidLines(emails)
    /\ UNCHANGED <<emails, use_disify, unique_emails, duplicates_count, format_valid_emails,
                   invalid_emails, final_valid_emails, disify_stats, stats, batch_start,
                   all_valid_emails, total_stats, batch_log>>
    /\ UNCHANGED sendVars

\* lines 699-710
P_Dedup ==
    /\ p_pc = "DEDUP"
    /\ p_pc' = "FORMAT"
    /\ LET d == RemoveDuplicates(extracted_emails, {}, <<>>, 0)
       IN  /\ unique_emails' = d.unique_emails
           /\ duplicates_count' = d.duplicates_count
    /\ UNCHANGED <<emails, use_disify, extracted_emails, invalid_lines, format_valid_emails,
                   invalid_emails, final_valid_emails, disify_stats, stats, batch_start,
                   all_valid_emails, total_stats, batch_log>>
    /\ UNCHANGED sendVars

\* lines 712-721
P_FormatFilter ==
    /\ p_pc = "FORMAT"
    /\ p_pc' = "EXTERNAL"
    /\ format_valid_emails' = FormatValid(unique_emails)
    /\ invalid_emails' = FormatInvalid(unique_emails)
    /\ UNCHANGED <<emails, use_disify, extracted_emails, invalid_lines, unique_emails,
                   duplicates_count, final_valid_emails, disify_stats, stats, batch_start,
                   all_valid_emails, total_stats, batch_log>>
    /\ UNCHANGED sendVars

\* lines 727-739: the else branch, external validation off or nothing to
\* validate
P_NoDisify ==
    /\ p_pc = "EXTERNAL"
    /\ ~(use_disify /\ format_valid_emails # <<>>)
    /\ p_pc' = "STATS"
    /\ final_valid_emails' = format_valid_emails
    /\ disify_stats' = [total |-> Len(format_valid_emails), invalid_format |-> 0,
                        invalid_dns |-> 0, disposable |-> 0,
                        unique |-> Len(format_valid_emails),
                        valid |-> Len(format_valid_emails)]
    /\ UNCHANGED <<emails, use_disify, extracted_emails, invalid_lines, unique_emails,
                   duplicates_count, format_valid_emails, invalid_emails, stats, batch_start,
                   all_valid_emails, total_stats, batch_log>>
    /\ UNCHANGED sendVars

\* lines 727-730 and 611-620: validate_emails_with_disify(format_valid_emails)
\* is entered (its early return of line 599 is not reached from here)
P_CallDisify ==
    /\ p_pc = "EXTERNAL"
    /\ use_disify /\ format_valid_emails # <<>>
    /\ p_pc' = "BATCHES"
    /\ batch_start' = 0
    /\ all_valid_emails' = <<>>
    /\ total_stats' = [NoStats EXCEPT !.unique = Len(format_valid_emails)]
    /\ batch_log' = <<>>
    /\ UNCHANGED <<emails, use_disify, extracted_emails, invalid_lines, unique_emails,
                   duplicates_count, format_valid_emails, invalid_emails, final_valid_emails,
                   disify_stats, stats>>
    /\ UNCHANGED sendVars

\* a batch is left to validate (line 623)
BatchLeft == p_pc = "BATCHES" /\ batch_start < Len(format_valid_emails)

\* the batch at hand (line 624)
Batch == BatchAt(format_valid_emails, batch_start)

\* one iteration of the loop of line 623 is over
NextBatch(kind, text, added) ==
    /\ batch_start' = batch_start + BatchSize
    /\ all_valid_emails' = all_valid_emails \o added
    /\ batch_log' = Append(batch_log, BatchRecord(Batch, kind, text, added))
    /\ UNCHANGED <<p_pc, emails, use_disify, extracted_emails, invalid_lines, unique_emails,
                   duplicates_count, format_valid_emails, invalid_emails, final_valid_emails,
                   disify_stats, stats>>
    /\ UNCHANGED sendVars

\* lines 636-658: both requests answered 200; the session view lists text
V_Validated ==
    /\ BatchLeft
    /\ \E text \in ViewTexts(format_valid_emails, Batch),
          invalid_dns \in 0..MaxReported, disposable \in 0..MaxReported,
          valid \in 0..MaxReported :
            /\ total_stats' = Accumulate(total_stats, Len(Batch), invalid_dns, disposable,
                                         valid)
            /\ NextBatch("validated", text, text)

\* V_NotViewed adding the batch although nothing confirmed it
V_NotViewed_AddsBatch ==
    /\ BatchLeft
    /\ \E invalid_dns \in 0..MaxReported, disposable \in 0..MaxReported,
          kind \in {"no_session", "view_status"} :
            /\ total_stats' = Accumulate(total_stats, Len(Batch), invalid_dns, disposable, 0)
            /\ NextBatch(kind, <<>>, FormatValid(Batch))

\* lines 636-658 when the answer holds no session (line 641) or the session
\* view is not answered 200 (line 645): nothing is added for the batch, its
\* counters are accumulated
V_NotViewed ==
    /\ BatchLeft
    /\ \E invalid_dns \in 0..MaxReported, disposable \in 0..MaxReported,
          valid \in 0..MaxReported, kind \in {"no_session", "view_status"} :
            /\ total_stats' = Accumulate(total_stats, Len(Batch), invalid_dns, disposable,
                                         valid)
            /\ NextBatch(kind, <<>>, <<>>)

\* V_FallbackStatus leaving the batch out
V_FallbackStatus_DropsBatch ==
    /\ BatchLeft
    /\ total_stats' = total_stats
    /\ NextBatch("mass_status", <<>>, <<>>)

\* lines 659-664: the mass-validation request is not answered 200
V_FallbackStatus ==
    /\ BatchLeft
    /\ total_stats' = total_stats
    /\ NextBatch("mass_status", <<>>, FormatValid(Batch))

\* lines 666-672: a request raised, or response.json() did, before anything
\* was added for the batch
V_FallbackException ==
    /\ BatchLeft
    /\ total_stats' = total_stats
    /\ \E kind \in {"mass_raised", "view_raised"} :
            NextBatch(kind, <<>>, FormatValid(Batch))

\* lines 649-656 and 666-672: a counter of the answer is no number (null, a
\* text), so its += raises after the session view's list was added; the
\* counters before it are accumulated, and the fallback adds the batch again
V_FallbackCounter ==
    /\ BatchLeft
    /\ \E text \in ViewTexts(format_valid_emails, Batch), invalid_dns \in 0..MaxReported,
          at \in {"invalid_dns", "disposable"} :
            /\ total_stats' =
                   Accumulate(total_stats, Len(Batch),
                              IF at = "disposable" THEN invalid_dns ELSE 0, 0, 0)
            /\ NextBatch("counter_raised", text, text \o FormatValid(Batch))

\* V_Return leaving the valid count as the validator reported it
V_Return_KeepsReported ==
    /\ p_pc = "BATCHES"
    /\ batch_start >= Len(format_valid_emails)
    /\ p_pc' = "STATS"
    /\ total_stats' = total_stats
    /\ final_valid_emails' = all_valid_emails
    /\ disify_stats' = total_stats'
    /\ UNCHANGED <<emails, use_disify, extracted_emails, invalid_lines, unique_emails,
                   duplicates_count, format_valid_emails, invalid_emails, stats, batch_start,
                   all_valid_emails, batch_log>>
    /\ UNCHANGED sendVars

\* lines 674-675 and 730
V_Return ==
    /\ p_pc = "BATCHES"
    /\ batch_start >= Len(format_valid_emails)
    /\ p_pc' = "STATS"
    /\ total_stats' = [total_stats EXCEPT !.valid = Len(all_valid_emails)]
    /\ final_valid_emails' = all_valid_emails
    /\ disify_stats' = total_stats'
    /\ UNCHANGED <<emails, use_disify, extracted_emails, invalid_lines, unique_emails,
                   duplicates_count, format_valid_emails, invalid_emails, stats, batch_start,
                   all_valid_emails, batch_log>>
    /\ UNCHANGED sendVars

\* P_Return counting the addresses left after the validator as format valid
P_Return_CountsFinal ==
    /\ p_pc = "STATS"
    /\ p_pc' = "DONE"
    /\ stats' = [total_lines |-> Len(emails),
                 extracted_emails |-> Len(extracted_emails),
                 duplicates_removed |-> duplicates_count,
                 invalid_lines |-> Len(invalid_lines),
                 invalid_emails |-> Len(invalid_emails),
                 format_valid_emails |-> Len(final_valid_emails),
                 disposable_emails |-> disify_stats.disposable,
                 invalid_dns |-> disify_stats.invalid_dns,
                 final_valid_emails |-> Len(final_valid_emails)]
    /\ UNCHANGED <<emails, use_disify, extracted_emails, invalid_lines, unique_emails,
                   duplicates_count, format_valid_emails, invalid_emails, final_valid_emails,
                   disify_stats, batch_start, all_valid_emails, total_stats, batch_log>>
    /\ UNCHANGED sendVars

\* lines 741-753
P_Return ==
    /\ p_pc = "STATS"
    /\ p_pc' = "DONE"
    /\ stats' = [total_lines |-> Len(emails),
                 extracted_emails |-> Len(extracted_emails),
                 duplicates_removed |-> duplicates_count,
                 invalid_lines |-> Len(invalid_lines),
                 invalid_emails |-> Len(invalid_emails),
                 format_valid_emails |-> Len(format_valid_emails),
                 disposable_emails |-> disify_stats.disposable,
                 invalid_dns |-> disify_stats.invalid_dns,
                 final_valid_emails |-> Len(final_valid_emails)]
    /\ UNCHANGED <<emails, use_disify, extracted_emails, invalid_lines, unique_emails,
                   duplicates_count, format_valid_emails, invalid_emails, final_valid_emails,
                   disify_stats, batch_start, all_valid_emails, total_stats, batch_log>>
    /\ UNCHANGED sendVars

\* The lines tried (lines 768-771 read them with their newline): three
\* addresses, one of them also in capitals, an address inside other text,
\* a blank line, a line without "@" and one whose last label is too short.
ExampleLines ==
    { <<"a", "@", "x", ".", "c", "o", "\n">>,
      <<"A", "@", "X", ".", "c", "o", "\n">>,
      <<"b", "@", "y", ".", "c", "o", "\n">>,
      <<"c", "@", "x", ".", "c", "o">>,
      <<"B", " ", "<", "b", "@", "y", ".", "c", "o", ">", ",", "\n">>,
      <<" ", "\n">>,
      <<"a", ".", "c", "o", "\n">>,
      <<"a", "@", "x", ".", "c", "\n">> }

RECURSIVE LinesUpTo(_)
LinesUpTo(n) ==
    IF n = 0 THEN {<<>>}
    ELSE LinesUpTo(n - 1) \cup
         {Append(l, line) : l \in {m \in LinesUpTo(n - 1) : Len(m) = n - 1},
                            line \in ExampleLines}

\* load_recipients_from_file (lines 768-774) calls the pipeline on the lines
\* of the file
InitPipe ==
    /\ InitSender
    /\ InitFrame
    /\ calls = 0
    /\ InitRunnerIdle
    /\ p_pc = "EXTRACT"
    /\ emails \in LinesUpTo(MaxLines)
    /\ use_disify \in BOOLEAN
    /\ InitPipeLocals

NextPipe ==
    \/ P_Extract
    \/ P_Dedup
    \/ P_FormatFilter
    \/ P_NoDisify
    \/ P_CallDisify
    \/ V_Validated
    \/ V_NotViewed
    \/ V_FallbackStatus
    \/ V_FallbackException
    \/ V_FallbackCounter
    \/ V_Return
    \/ P_Return

SpecPipe == InitPipe /\ [][NextPipe]_vars

(***************************************************************************)
(* extract_email_from_line on its own: the pipeline with the external      *)
(* validation off, on files of one line put together from a few texts.     *)
(***************************************************************************)
TokenTexts ==
    { <<"a", "@", "x", ".", "c", "o">>,
      <<"B", "@", "Y", ".", "C", "O">>,
      <<"a", "@", "x", ".", "c">>,
      <<" ">>,
      <<"\n">>,
      <<"@">>,
      <<".">>,
      <<"x">>,
      <<"<">> }

RECURSIVE TextsOfTokens(_)
TextsOfTokens(n) ==
    IF n = 0 THEN {<<>>}
    ELSE TextsOfTokens(n - 1) \cup {t \o token : t \in TextsOfTokens(n - 1), token \in TokenTexts}

InitExtract ==
    /\ InitSender
    /\ InitFrame
    /\ calls = 0
    /\ InitRunnerIdle
    /\ p_pc = "EXTRACT"
    /\ emails \in {<<line>> : line \in TextsOfTokens(MaxTokens)}
    /\ use_disify = FALSE
    /\ InitPipeLocals

NextExtract ==
    \/ P_Extract
    \/ P_Dedup
    \/ P_FormatFilter
    \/ P_NoDisify
    \/ P_Return

SpecExtract == InitExtract /\ [][NextExtract]_vars

(***************************************************************************)
(* The claims.  A step of send_email that issues a request is one with     *)
(* se_pc = "loop" and requests_made' = requests_made + 1; response' is the *)
(* answer it got.                                                          *)
(***************************************************************************)

\* C1: in a campaign run the progress file changes only by appending the
\* address of the recipient at hand, in the step that takes the success
\* result send_email returned for that address in this run, and at that
\* moment no request has been issued for any later recipient of the list.
C1_LedgerAfterSuccess ==
    [][ledger_file' # ledger_file =>
          /\ r_pc = "SENDING"
          /\ se_pc = "returned"
          /\ se_result.success
          /\ se_result.recipient = Recipient
          /\ Recipient \in Range(delivered)
          /\ ledger_file' = Append(ledger_file, Recipient)
          /\ requested \subseteq Range(SubSeq(recipient_list, 1, i + 1))
          /\ se_pc' = "idle"]_vars

\* C1 witness: the first recipient's address is in the file while the
\* request for the second, a different address, has been answered
C1_Witness ==
    /\ r_pc = "SENDING"
    /\ i = 1
    /\ Len(ledger_file) = 1
    /\ ledger_file[1] = recipient_list[1]
    /\ se_pc = "returned"
    /\ recipient_email # ledger_file[1]

\* C2: in a second run whose progress file, read back in full, holds every
\* recipient of the list, no send request is issued, no result is recorded
\* and the progress file stays as it was.
C2_LedgerIdempotence ==
    (/\ run = "again"
     /\ r_pc \in {"SENDING", "DONE"}
     /\ Range(recipients) \subseteq Range(ledger_at_start)
     /\ loaded = Range(ledger_at_start))
        => /\ requested = {}
           /\ results = <<>>
           /\ ledger_file = ledger_at_start
           /\ se_pc = "idle"

\* C2 witness: the second run over two recorded recipients is done
C2_Witness ==
    /\ run = "again"
    /\ r_pc = "DONE"
    /\ start_index = 0
    /\ Len(recipients) = 2
    /\ Range(recipients) \subseteq Range(ledger_at_start)
    /\ loaded = Range(ledger_at_start)
    /\ i = 2

\* C3: a request of a call with max_retries >= 1 answered 429 without a
\* Retry-After header is followed, while attempts remain, by a sleep of
\* min(60 * 2^attempt, 600) seconds and the next attempt; on the last
\* attempt the call returns a failure, having made max_retries requests and
\* max_retries - 1 sleeps.
C3_RetryBudget ==
    [][(/\ se_pc = "loop"
        /\ requests_made' = requests_made + 1
        /\ max_retries >= 1
        /\ response'.status_code = 429
        /\ response'.retry_after = NoRA)
          => IF attempt < max_retries - 1
             THEN /\ slept' = <<Min(60 * Pow2(attempt), 600)>>
                  /\ sleeps_made' = sleeps_made + 1
                  /\ attempt' = attempt + 1
                  /\ se_pc' = "loop"
             ELSE /\ se_pc' = "returned"
                  /\ ~se_result'.success
                  /\ slept' = <<>>
                  /\ requests_made' = max_retries
                  /\ sleeps_made' = max_retries - 1]_vars

\* C4: when send_email raised, or the ledger write of a success failed, the
\* runner records one failure for the recipient at hand and goes on with
\* the next; the run is done only when every recipient has been handled.
C4_ExceptionCaught ==
    /\ [][(/\ r_pc = "SENDING"
           /\ \/ se_pc = "raised"
              \/ /\ se_pc = "returned"
                 /\ se_result.success
                 /\ progress_fp = "open"
                 /\ ledger_file' = ledger_file)
             => /\ Len(results') = Len(results) + 1
                /\ SubSeq(results', 1, Len(results)) = results
                /\ ~results'[Len(results')].success
                /\ results'[Len(results')].recipient = Recipient
                /\ r_pc' = "SENDING"
                /\ i' = i + 1
                /\ recipient_list' = recipient_list
                /\ se_pc' = "idle"]_vars
    /\ [](r_pc = "DONE" => i = Len(recipient_list))

\* C4 witness: the first recipient's call raised, the second recipient's
\* request was answered
C4_Witness ==
    /\ r_pc = "SENDING"
    /\ i = 1
    /\ Len(results) = 1
    /\ results[1].error \in {"Failed to acquire token", "Attachment file not found",
                             "Expecting value", "write error"}
    /\ se_pc = "returned"

C6_ThrottleSleep ==
    [][(/\ se_pc = "loop"
        /\ requests_made' = requests_made + 1
        /\ response' # TransportFailure
        /\ response'.status_code # 202
        /\ response'.status_code = 429 \/ HasThrottleMarker(response'.body)
        /\ attempt < max_retries - 1)
          => /\ slept' = <<IF response'.retry_after.kind = "int"
                           THEN response'.retry_after.val
                           ELSE Min(60 * Pow2(attempt), 600)>>
             /\ sleeps_made' = sleeps_made + 1
             /\ attempt' = attempt + 1
             /\ se_pc' = "loop"]_vars

\* C7: a request that fails in transport is followed, while attempts remain,
\* by a sleep of min(2^attempt, 30) seconds and the next attempt; on the last
\* attempt the call returns, without a sleep, a failure with the exception
\* text and no status code.
C7_TransportFailure ==
    [][(/\ se_pc = "loop"
        /\ requests_made' = requests_made + 1
        /\ response' = TransportFailure)
          => IF attempt < max_retries - 1
             THEN /\ slept' = <<Min(Pow2(attempt), 30)>>
                  /\ sleeps_made' = sleeps_made + 1
                  /\ attempt' = attempt + 1
                  /\ se_pc' = "loop"
                  /\ se_result' = NoResult
             ELSE /\ se_pc' = "returned"
                  /\ se_result' = [success |-> FALSE, recipient |-> recipient_email,
                                   status_code |-> 0, error |-> "Request exception", n |-> 0]
                  /\ slept' = <<>>
                  /\ sleeps_made' = sleeps_made]_vars

\* C7 witness: the sixth transport failure in a row was followed by the
\* capped sleep of 30 seconds
C7_Witness ==
    /\ se_pc = "loop"
    /\ response = TransportFailure
    /\ attempt = 6
    /\ sleeps_made = 6
    /\ slept = <<30>>

\* C8: a request answered with a status other than 202, not a 401 with the
\* token-expired signal and not throttled is followed at once by the return
\* of a failure with that status and body: no sleep, no further request, no
\* token exchange.
C8_OtherResponse ==
    [][(/\ se_pc = "loop"
        /\ requests_made' = requests_made + 1
        /\ response' # TransportFailure
        /\ response'.status_code # 202
        /\ ~(response'.status_code = 401 /\ HasExpiredSignal(response'.body))
        /\ ~(response'.status_code = 429 \/ HasThrottleMarker(response'.body)))
          => /\ se_pc' = "returned"
             /\ se_result' = FailureResult(recipient_email, response'.status_code,
                                           response'.body)
             /\ slept' = <<>>
             /\ sleeps_made' = sleeps_made
             /\ token_call' = NoTokenCall
             /\ UNCHANGED tokenVars]_vars

\* C9 as stated: a call that returned a failure after max_retries requests
\* returned the generic failure "Failed after <max_retries> attempts".
C9_AsStated ==
    (/\ se_pc = "returned"
     /\ ~se_result.success
     /\ requests_made = max_retries)
        => se_result = GenericFailure(recipient_email, max_retries)

\* C9, amended: a call with max_retries >= 1 that returned a failure made
\* between 1 and max_retries requests and returned the failure of its last
\* request: the status and body of the answer, (401, "Token expired"), or
\* the exception text without a status.  The generic failure "Failed after
\* <max_retries> attempts" is returned only by a call with max_retries <= 0,
\* which makes no request.
C9_LastAttemptFailure ==
    (se_pc = "returned" /\ ~se_result.success)
        => IF max_retries >= 1
           THEN /\ requests_made \in 1..max_retries
                /\ attempt = requests_made - 1
                /\ se_result \in
                       {FailureResult(recipient_email, response.status_code, response.body),
                        FailureResult(recipient_email, 401, "Token expired"),
                        FailureResult(recipient_email, 0, "Request exception")}
                /\ se_result.error # "Failed after n attempts"
           ELSE /\ requests_made = 0
                /\ se_result = GenericFailure(recipient_email, max_retries)

\* C9 witness: a call with max_retries = 3 returned a failure after its
\* third request
C9_Witness ==
    /\ se_pc = "returned"
    /\ ~se_result.success
    /\ max_retries = 3
    /\ requests_made = 3
    /\ sleeps_made = 2

\* C10: get_access_token returns the cached token without an exchange
\* exactly when a token is cached, force_refresh is false and
\* now < expires_at - 300; otherwise it makes one exchange, and when that
\* yields a token it caches it with expires_at = now + expires_in (3600
\* without expires_in) and returns it.
C10_TokenCache ==
    [][(\/ se_pc = "start" /\ se_pc' # "start"
        \/ se_pc = "loop" /\ token_call' # NoTokenCall)
          => LET force == se_pc = "loop"
                 hit == /\ access_token # NoToken
                        /\ ~force
                        /\ now < token_expires_at - 300
                 got == token_call'.result
             IN  /\ token_call'.force = force
                 /\ IF hit
                    THEN /\ token_call'.exchanges = 0
                         /\ token_call'.ret = access_token
                         /\ bearer' = access_token
                         /\ UNCHANGED tokenVars
                    ELSE /\ token_call'.exchanges = 1
                         /\ got.has_token =>
                              /\ token_call'.ret = got.access_token
                              /\ bearer' = got.access_token
                              /\ access_token' = got.access_token
                              /\ token_expires_at' =
                                     now + (IF got.has_expires_in THEN got.expires_in
                                            ELSE 3600)]_vars

\* C10 witness: the second call found the token of the first in the cache,
\* within the margin
C10_Witness ==
    /\ calls = 2
    /\ se_pc = "prepare"
    /\ token_call.exchanges = 0
    /\ ~token_call.force
    /\ bearer = access_token
    /\ now < token_expires_at - 300

\* C11: every send request, a retry after a backoff sleep included, carries
\* the cached token, and now < expires_at - 300 holds when it is made.
C11_TokenFreshAtRequest ==
    [][(se_pc = "loop" /\ requests_made' = requests_made + 1)
          => /\ bearer = access_token
             /\ now < token_expires_at - 300]_vars

\* C12: once a token exchange has failed in a campaign run the run is
\* over: the failure is the last result recorded, no later send_email call
\* is started, and no send request has been issued for any recipient in
\* that run.
C12_AuthErrorFatal ==
    (\E k \in 1..Len(results) : results[k].error = "Failed to acquire token")
        => /\ results[Len(results)].error = "Failed to acquire token"
           /\ se_pc = "idle"
           /\ requested = {}

\* C13: for a recipient in the set read from the progress file at the start
\* of the run no send request is issued, no result is recorded, and the
\* lines the run appends to the progress file do not hold its address.
C13_LoadedSkipped ==
    \A a \in loaded :
        /\ a \notin requested
        /\ \A k \in 1..Len(results) : results[k].recipient # a
        /\ \A k \in (Len(ledger_at_start) + 1)..Len(ledger_file) : ledger_file[k] # a
        /\ se_pc # "idle" => recipient_email # a

\* C13 witness: a second run that skipped the recorded first recipient and
\* sent to the second
C13_Witness ==
    /\ run = "again"
    /\ r_pc = "DONE"
    /\ Len(recipient_list) = 2
    /\ loaded = {recipient_list[1]}
    /\ requested = {recipient_list[2]}
    /\ Len(results) = 1

\* C14: the step that takes a result send_email returned sleeps 30 seconds,
\* before the inter-message delay, exactly when the result is a failure with
\* status 429 or with the throttling marker in its error; whatever was slept
\* inside send_email does not matter.
C14_ThrottleCooldown ==
    [][(/\ r_pc = "SENDING"
        /\ se_pc = "returned"
        /\ se_pc' = "idle")
          => LET throttled == /\ ~se_result.success
                              /\ \/ se_result.status_code = 429
                                 \/ HasThrottleMarker(se_result.error)
             IN  IF throttled
                 THEN /\ runner_sleeps' # <<>>
                      /\ runner_sleeps'[1] = 30
                      /\ \A k \in 2..Len(runner_sleeps') : runner_sleeps'[k] # 30
                 ELSE \A k \in 1..Len(runner_sleeps') : runner_sleeps'[k] # 30]_vars

\* C14 witness: the first recipient's call ended in a 429 failure and the
\* runner slept 30 and then 5 seconds
C14_Witness ==
    /\ r_pc = "SENDING"
    /\ i = 1
    /\ Len(results) = 1
    /\ results[1].status_code = 429
    /\ runner_sleeps = <<30, 5>>

\* C15: the step that ends the handling of a recipient a send was attempted
\* for (success, failure result or caught exception) sleeps 5 seconds last
\* when a later recipient is left in the list, and does not sleep 5 seconds
\* after the final recipient.
C15_InterMessageDelay ==
    [][(/\ r_pc = "SENDING"
        /\ se_pc \in {"returned", "raised"}
        /\ se_pc' = "idle")
          => IF i + 1 < Len(recipient_list)
             THEN /\ runner_sleeps' # <<>>
                  /\ runner_sleeps'[Len(runner_sleeps')] = 5
             ELSE \A k \in 1..Len(runner_sleeps') : runner_sleeps'[k] # 5]_vars

\* C16: a run from the start of a list of distinct recipients, with the
\* progress file empty or absent at the start and opened and written without
\* error, in which every recipient's send was answered 202, returns one
\* success record per recipient in list order, and the progress file then
\* holds exactly the recipients, in order, each once.
C16_EndToEnd ==
    (/\ r_pc = "DONE"
     /\ ledger_at_start = <<>>
     /\ start_index = 0
     /\ progress_fp = "closed"
     /\ \A j, k \in 1..Len(recipients) : j # k => recipients[j] # recipients[k]
     /\ delivered = recipients
     /\ \A k \in 1..Len(results) : results[k].error # "write error")
        => /\ Len(results) = Len(recipients)
           /\ \A k \in 1..Len(results) :
                  results[k] = [success |-> TRUE, recipient |-> recipients[k],
                                status_code |-> 202, error |-> "", n |-> 0]
           /\ ledger_file = recipients

\* C16 witness: a run over two distinct recipients, both delivered
C16_Witness ==
    /\ r_pc = "DONE"
    /\ ledger_at_start = <<>>
    /\ start_index = 0
    /\ progress_fp = "closed"
    /\ Len(recipients) = 2
    /\ recipients[1] # recipients[2]
    /\ delivered = recipients
    /\ ledger_file = recipients
    /\ Len(results) = 2


\* the first position of e in list
FirstIndex(list, e) ==
    CHOOSE k \in 1..Len(list) : list[k] = e /\ \A j \in 1..(k - 1) : list[j] # e

\* the dedup stage (lines 699-710) has just run
Deduped == p_pc = "FORMAT"

\* C17: after the dedup stage the unique list holds every extracted address
\* once, in the order of the first occurrences, duplicates_removed is the
\* extracted count minus the unique count, and no two unique addresses
\* differ only in letter case (the extracted addresses are lowercased).
C17_DedupFirstSeen ==
    Deduped =>
        /\ \A k \in 1..Len(extracted_emails) : extracted_emails[k] = ToLower(extracted_emails[k])
        /\ {unique_emails[k] : k \in 1..Len(unique_emails)}
               = {extracted_emails[k] : k \in 1..Len(extracted_emails)}
        /\ \A j, k \in 1..Len(unique_emails) :
               j < k => /\ ToLower(unique_emails[j]) # ToLower(unique_emails[k])
                        /\ FirstIndex(extracted_emails, unique_emails[j])
                               < FirstIndex(extracted_emails, unique_emails[k])
        /\ duplicates_count = Len(extracted_emails) - Len(unique_emails)

\* a file with an address in small letters, the same in capitals and another
\* address after them has been deduplicated
C17_Witness ==
    /\ Deduped
    /\ Len(emails) = 3
    /\ emails[1] = <<"a", "@", "x", ".", "c", "o", "\n">>
    /\ emails[2] = <<"A", "@", "X", ".", "c", "o", "\n">>
    /\ Len(unique_emails) = 2
    /\ duplicates_count = 1


\* C18: the list the pipeline returns holds no address twice and every
\* member of it passes is_valid_email, with external validation off or on
\* and whatever the validator answers.
C18_ReturnedUniqueAndValid ==
    p_pc = "DONE" =>
        /\ \A j, k \in 1..Len(final_valid_emails) :
               j # k => final_valid_emails[j] # final_valid_emails[k]
        /\ \A k \in 1..Len(final_valid_emails) : IsValidEmail(final_valid_emails[k])


\* the answers after which a batch falls back to format validation
\* (lines 659-664 and 666-672)
FallbackKinds == {"mass_status", "mass_raised", "view_raised", "counter_raised"}

\* the session view of the batch of record b listed e (lines 645-649)
ListedFor(b, e) == e \in Range(b.text)

MassStatusStep ==
    /\ BatchLeft
    /\ Len(batch_log') = Len(batch_log) + 1
    /\ batch_log'[Len(batch_log')].kind = "mass_status"

\* C20: a batch whose mass-validation request is not answered 200 adds
\* exactly its members passing is_valid_email, in order, after what the
\* earlier batches added, leaves the disposable and invalid_dns counters as
\* they were and lets the loop go on with the next batch; the addresses it
\* added are in the list the pipeline returns.
C20_BatchFallback ==
    /\ [][MassStatusStep =>
            /\ all_valid_emails' =
                   all_valid_emails \o SelectSeq(Batch, LAMBDA e : IsValidEmail(e))
            /\ total_stats'.disposable = total_stats.disposable
            /\ total_stats'.invalid_dns = total_stats.invalid_dns
            /\ SubSeq(batch_log', 1, Len(batch_log)) = batch_log
            /\ batch_start' = batch_start + BatchSize
            /\ format_valid_emails' = format_valid_emails]_vars
    /\ [](p_pc = "DONE" =>
            \A n \in 1..Len(batch_log) :
                batch_log[n].kind = "mass_status" =>
                    \A e \in Range(batch_log[n].batch) :
                        IsValidEmail(e) => e \in Range(final_valid_emails))

\* a run returned in which the first batch was confirmed by its session view
\* with a disposable address reported, and the second fell back after a
\* mass-validation answer other than 200
C20_Witness ==
    /\ p_pc = "DONE"
    /\ Len(batch_log) = 2
    /\ batch_log[1].kind = "validated"
    /\ batch_log[2].kind = "mass_status"
    /\ batch_log[2].batch # <<>>
    /\ stats.disposable_emails = 1
    /\ final_valid_emails = batch_log[1].text \o batch_log[2].batch


\* the answers of a batch with a request answered other than 200 or raising
FailedRequestKinds == {"mass_status", "mass_raised", "view_status", "view_raised"}

\* how many times e is in list
Occurrences(list, e) == Cardinality({k \in 1..Len(list) : list[k] = e})

\* C21: when a request made for a batch (the mass validation or the session
\* view) is answered other than 200 or raises, every member of the batch
\* passing is_valid_email is in the returned list exactly once, and every
\* batch of the list has been handled when the pipeline returns.
C21_FallbackKeepsBatch ==
    (p_pc = "DONE" /\ use_disify) =>
        /\ Len(batch_log) * BatchSize >= Len(format_valid_emails)
        /\ \A n \in 1..Len(batch_log) :
               batch_log[n].kind \in FailedRequestKinds =>
                   \A e \in Range(batch_log[n].batch) :
                       IsValidEmail(e) => Occurrences(final_valid_emails, e) = 1


\* C22: the statistics the pipeline returns agree with its lists:
\* final_valid_emails is the length of the returned list, and so is the
\* validator statistics' valid count whatever the validator reported;
\* total_lines = extracted_emails + invalid_lines; extracted_emails =
\* duplicates_removed + format_valid_emails + invalid_emails.
C22_StatsConsistent ==
    p_pc = "DONE" =>
        /\ stats.final_valid_emails = Len(final_valid_emails)
        /\ disify_stats.valid = Len(final_valid_emails)
        /\ stats.total_lines = Len(emails)
        /\ stats.total_lines = stats.extracted_emails + stats.invalid_lines
        /\ stats.extracted_emails
               = stats.duplicates_removed + stats.format_valid_emails + stats.invalid_emails
        /\ stats.extracted_emails = Len(extracted_emails)
        /\ stats.format_valid_emails = Len(format_valid_emails)
        /\ stats.invalid_emails = Len(invalid_emails)

\* a run returned for a file with a repeated address and a line without an
\* address, in which the session view listed more addresses than passed the
\* format filter
C22_Witness ==
    /\ p_pc = "DONE"
    /\ use_disify
    /\ stats.duplicates_removed = 1
    /\ stats.invalid_lines = 1
    /\ \E n \in 1..Len(batch_log) : batch_log[n].kind = "validated"
    /\ stats.final_valid_emails > stats.format_valid_emails


\* The six statistics that the input lines alone determine (lines 742-747),
\* counted from the lines without the lists of the run.
StatsOfLines(lines) ==
    LET found == [k \in 1..Len(lines) |-> ExtractEmailFromLine(lines[k])]
        with == {k \in 1..Len(lines) : found[k] # NoEmail}
        addresses == {found[k] : k \in with}
        valid == {e \in addresses : IsValidEmail(e)}
    IN  [total_lines |-> Len(lines),
         extracted_emails |-> Cardinality(with),
         duplicates_removed |-> Cardinality(with) - Cardinality(addresses),
         invalid_lines |-> Len(lines) - Cardinality(with),
         invalid_emails |-> Cardinality(addresses) - Cardinality(valid),
         format_valid_emails |-> Cardinality(valid)]

\* the six numbers as the lists of the run give them (lines 742-747)
StatsOfLists ==
    [total_lines |-> Len(emails),
     extracted_emails |-> Len(extracted_emails),
     duplicates_removed |-> duplicates_count,
     invalid_lines |-> Len(invalid_lines),
     invalid_emails |-> Len(invalid_emails),
     format_valid_emails |-> Len(format_valid_emails)]

\* C23: total_lines, extracted_emails, duplicates_removed, invalid_lines,
\* invalid_emails and format_valid_emails of the returned statistics are
\* determined by the input lines alone, so two runs on the same lines return
\* the same six numbers whether the validation is off, succeeds for every
\* batch or falls back for some: when the validation stage is reached the
\* lists give the numbers the lines determine, the validation stage changes
\* none of these lists, and the returned statistics are taken from them.
C23_StatsIndependentOfValidator ==
    /\ [](p_pc = "EXTERNAL" => StatsOfLists = StatsOfLines(emails))
    /\ [][(p_pc \in {"EXTERNAL", "BATCHES", "STATS"}) => StatsOfLists' = StatsOfLists]_vars
    /\ [](p_pc = "DONE" => \A f \in DOMAIN StatsOfLists : stats[f] = StatsOfLists[f])

\* a run returned with the validation on, one batch confirmed and one fallen
\* back, a disposable address reported and fewer addresses returned than
\* passed the format filter
C23_Witness ==
    /\ p_pc = "DONE"
    /\ use_disify
    /\ \E n, f \in 1..Len(batch_log) :
          /\ batch_log[n].kind = "validated"
          /\ batch_log[f].kind \in FallbackKinds
    /\ stats.disposable_emails >= 1
    /\ stats.final_valid_emails < stats.format_valid_emails


\* The candidates of a text: the places <<i, j>> of the parts that lie
\* between two word boundaries and pass is_valid_email up to their last
\* character.
Candidates(text) ==
    {c \in (1..Len(text)) \X (1..Len(text)) :
        /\ c[1] <= c[2]
        /\ WordBoundary(text, c[1] - 1)
        /\ WordBoundary(text, c[2])
        /\ text[c[2]] # "\n"
        /\ IsValidEmail(SubSeq(text, c[1], c[2]))}

\* what extract_email_from_line returned for the one line of the file
Extracted == IF extracted_emails = <<>> THEN NoEmail ELSE extracted_emails[1]

\* C24: extract_email_from_line returns nothing for a line that is empty or
\* blank and for a line without "@"; it returns nothing exactly when the
\* line has no candidate; what it returns is a candidate that starts where
\* the leftmost candidate starts, in small letters, and passes
\* is_valid_email.
C24_ExtractAddress ==
    (p_pc = "DEDUP" /\ Len(emails) = 1) =>
        LET text == Strip(emails[1])
            found == Candidates(text)
        IN  /\ text = <<>> => Extracted = NoEmail
            /\ "@" \notin Range(emails[1]) => Extracted = NoEmail
            /\ Extracted = NoEmail <=> found = {}
            /\ Extracted # NoEmail =>
                   /\ Extracted = ToLower(Extracted)
                   /\ IsValidEmail(Extracted)
                   /\ \E c \in found :
                          /\ \A d \in found : c[1] <= d[1]
                          /\ Extracted = ToLower(SubSeq(text, c[1], c[2]))

\* the line "B@Y.CO a@x.co" gave its first address in small letters
C24_Witness ==
    /\ p_pc = "DEDUP"
    /\ emails = << <<"B", "@", "Y", ".", "C", "O", " ", "a", "@", "x", ".", "c", "o">> >>
    /\ extracted_emails = << <<"b", "@", "y", ".", "c", "o">> >>


\* C25: within a run, a step that goes on to the next recipient leaves
\* results as they are when the recipient is skipped for being in the ledger
\* set, and otherwise appends one record for that recipient after the
\* records there are; no other step changes results.
C25_ResultsSequence ==
    [][run' = run =>
          IF i' = i + 1
          THEN IF Recipient \in sent_emails
               THEN results' = results
               ELSE /\ Len(results') = Len(results) + 1
                    /\ SubSeq(results', 1, Len(results)) = results
                    /\ results'[Len(results')].recipient = Recipient
          ELSE results' = results]_vars

\* a run over two recipients has ended with the first skipped for being in
\* the ledger read at the start and one record, for the second
C25_Witness ==
    /\ r_pc = "DONE"
    /\ Len(recipient_list) = 2
    /\ recipient_list[1] \in loaded
    /\ Len(results) = 1
    /\ results[1].recipient = recipient_list[2]


\* the order of the states of a run; DONE to INIT is the program run again
RunnerOrder ==
    {<<"INIT", "LOADING_PROGRESS">>, <<"LOADING_PROGRESS", "SENDING">>, <<"SENDING", "DONE">>,
     <<"DONE", "INIT">>}

\* C26: a run that has begun reaches DONE; it passes INIT, LOADING_PROGRESS,
\* SENDING and DONE in that order, goes through the recipients one by one,
\* and at DONE every recipient of the list has been handled and the progress
\* file is not open.
C26_Termination ==
    /\ (r_pc = "INIT") ~> (r_pc = "DONE" /\ i = Len(recipient_list) /\ progress_fp # "open")
    /\ [][/\ r_pc' # r_pc => <<r_pc, r_pc'>> \in RunnerOrder
          /\ (run' = run /\ i' # i) => (r_pc = "SENDING" /\ i' = i + 1)]_vars
    /\ [](r_pc = "DONE" => (i = Len(recipient_list) /\ progress_fp # "open"))

\* a run with no progress file on disk at its start has ended after two
\* recipients, one of them with an exception caught, and its progress file
\* is closed
C26_Witness ==
    /\ r_pc = "DONE"
    /\ run = "first"
    /\ ledger_at_start = <<>>
    /\ progress_fp = "closed"
    /\ Len(recipient_list) = 2
    /\ i = 2
    /\ \E k \in 1..Len(results) : results[k].error = "Failed to acquire token"


\* the addresses at the positions of recipients the resume offset leaves
Remaining == {recipients[p] : p \in (start_index + 1)..Len(recipients)}

\* the addresses this run has appended to the progress file
AppendedThisRun ==
    Range(SubSeq(ledger_file, Len(ledger_at_start) + 1, Len(ledger_file)))

\* C27: with start_index = k > 0 the loop goes over the recipients at the
\* positions after the first k, in order; requests, result records and
\* ledger entries are for addresses at those positions only and there is at
\* most one record for each position; with k at or beyond the length of the
\* list nothing is sent and no result is returned.
C27_ResumeOffset ==
    (start_index > 0 /\ r_pc \in {"SENDING", "DONE"}) =>
        /\ recipient_list
               = [p \in 1..(IF Len(recipients) > start_index
                            THEN Len(recipients) - start_index ELSE 0)
                      |-> recipients[start_index + p]]
        /\ requested \subseteq Remaining
        /\ \A n \in 1..Len(results) : results[n].recipient \in Remaining
        /\ Len(results) <= i
        /\ i <= Len(recipient_list)
        /\ AppendedThisRun \subseteq Remaining
        /\ start_index >= Len(recipients) =>
               (results = <<>> /\ requested = {} /\ AppendedThisRun = {})

\* a run over two different recipients that resumed from the second has
\* ended: one request, one record and one ledger entry, all for the second
C27_Witness ==
    /\ r_pc = "DONE"
    /\ start_index = 1
    /\ Len(recipients) = 2
    /\ recipients[1] # recipients[2]
    /\ requested = {recipients[2]}
    /\ Len(results) = 1
    /\ results[1].success
    /\ AppendedThisRun = {recipients[2]}


\* C28: a send_email call with max_retries >= 1 that has sent a request
\* ends by returning a result, with at most max_retries requests and at
\* most max_retries - 1 sleeps made, whatever the answers were; while it
\* runs it is within these numbers.
C28_RequestAndSleepBounds ==
    (max_retries >= 1 /\ requests_made >= 1) =>
        /\ requests_made <= max_retries
        /\ sleeps_made <= max_retries - 1
        /\ se_pc # "raised"


\* no member of list is in it twice
NoRepeat(list) == \A j, k \in 1..Len(list) : j # k => list[j] # list[k]

\* C29: within a run no address is sent to successfully twice and none is
\* appended to the progress file twice; when the recipient at hand has been
\* sent to successfully in this run, the loop goes on to the next recipient
\* without a send_email call.
C29_NoDoubleSend ==
    /\ [](NoRepeat(delivered))
    /\ [](NoRepeat(SubSeq(ledger_file, Len(ledger_at_start) + 1, Len(ledger_file))))
    /\ [][(/\ r_pc = "SENDING"
           /\ se_pc = "idle"
           /\ i < Len(recipient_list)
           /\ Recipient \in Range(delivered))
             => (se_pc' = "idle" /\ i' = i + 1 /\ results' = results
                 /\ requested' = requested /\ ledger_file' = ledger_file)]_vars

\* a run over a list that names one address twice has ended with one
\* successful send, one record and one ledger entry
C29_Witness ==
    /\ r_pc = "DONE"
    /\ Len(recipient_list) = 2
    /\ recipient_list[1] = recipient_list[2]
    /\ delivered = <<recipient_list[1]>>
    /\ Len(results) = 1
    /\ AppendedThisRun = {recipient_list[1]}
    /\ Len(ledger_file) = Len(ledger_at_start) + 1

\* C30: a get_access_token call whose exchange yields no token raises and
\* leaves access_token and token_expires_at as they were; the call without
\* force_refresh that follows a forced refresh that failed returns the
\* token still cached, without an exchange, while now < expires_at - 300.
C30_FailedExchangeKeepsCache ==
    /\ [][(/\ calls' = calls + 1
           /\ token_call'.exchanges = 1
           /\ ~token_call'.result.has_token)
             => /\ token_call'.ret = Raise
                /\ access_token' = access_token
                /\ token_expires_at' = token_expires_at]_vars
    /\ [][(/\ calls' = calls + 1
           /\ prev_call' = "refresh_failed"
           /\ ~token_call'.force
           /\ access_token # NoToken
           /\ now < token_expires_at - 300)
             => /\ token_call'.exchanges = 0
                /\ token_call'.ret = access_token
                /\ access_token' = access_token
                /\ token_expires_at' = token_expires_at]_vars

\* a call without force_refresh, made after a forced refresh that failed,
\* returned the token cached before the refresh
C30_Witness ==
    /\ prev_call = "refresh_failed"
    /\ calls = 3
    /\ ~token_call.force
    /\ token_call.exchanges = 0
    /\ token_call.ret = access_token
    /\ access_token \in Tokens
    /\ now < token_expires_at - 300

====
